---- MODULE Spec2Model ----
(***************************************************************************)
(* Model of the polaroid-booth compositor: CanvasDrawer (asset loading,    *)
(* frame renderer, layout geometry) as found in src/unnamed/part_000.      *)
(* One createDownloadableCanvas call is followed from its invocation on a  *)
(* freshly constructed CanvasDrawer, across its single await point (the    *)
(* bulk asset load), to its return value or thrown error.  Every canvas    *)
(* operation the call performs is recorded, with the draw state in effect. *)
(***************************************************************************)
EXTENDS Integers, Sequences, FiniteSets, Bags, TLC

VARIABLES
    pc,        \* position of the call: "idle", "loading", "returned", "threw"
    options,   \* the options object of the call
    loaded,    \* decode outcome of every main image and decoration
    canvas,    \* this.canvas: [width, height]
    ctx,       \* this.ctx: the current drawing state
    stack,     \* the drawing-state stack of this.ctx (save / restore)
    ops,       \* canvas operations performed so far, in order
    frames,    \* invocations of _drawSinglePolaroid so far, in order
    result,    \* "none", "canvas", or the error thrown to the caller
    before,    \* canvas, ctx and stack as they were when the call started
    decodes,   \* per-decode status while the asset load is followed decode by decode
    source,    \* a source image size handed to _drawImageWithAspectRatio
    fit,       \* the destination rectangle _drawImageWithAspectRatio drew it to
    ui,        \* PolaroidMaker: this.state and the element properties it drives
    downloads, \* PolaroidMaker: downloadPolaroid calls awaiting their canvas
    preview,   \* PolaroidMaker: the cells renderPolaroid put on the page
    booth      \* PolaroidMaker: camera, timer sequence and the buttons they drive

drawerVars == <<pc, options, loaded, canvas, ctx, stack, ops, frames, result, before>>
coverVars == <<source, fit>>
makerVars == <<ui, downloads, preview>>
vars == <<drawerVars, decodes, coverVars, makerVars, booth>>

-----------------------------------------------------------------------------
(* Bounds of the model *)

MaxImages == 5

\* startCamera calls awaiting a promise, plus live streams no longer held.
MaxRequests == 2

\* Largest value of the photo count field when a timer sequence starts.
MaxRounds == 2

\* Longest images list of a call on a CanvasDrawer that is used again.
MaxReuseImages == 2

\* Most downloadPolaroid calls awaiting their canvas at one time.
MaxDownloads == 2

\* Most photos on the page after an upload.
MaxUploads == 1

\* Longest images list of a call whose decodes are followed one by one.
MaxLoadImages == 2

\* Largest width and height of a source image given to the cover fit alone.
MaxSide == 12

-----------------------------------------------------------------------------
(* Exact rational arithmetic, standing for the JavaScript numbers *)

RECURSIVE Gcd(_, _)
Gcd(a, b) == IF b = 0 THEN a ELSE Gcd(b, a % b)

Abs(i) == IF i < 0 THEN -i ELSE i

Norm(n, d) ==
    LET g == Gcd(Abs(n), d)
    IN  [n |-> n \div g, d |-> d \div g]

R(i) == [n |-> i, d |-> 1]
RAdd(a, b) == Norm(a.n * b.d + b.n * a.d, a.d * b.d)
RSub(a, b) == Norm(a.n * b.d - b.n * a.d, a.d * b.d)
RMul(a, b) == Norm(a.n * b.n, a.d * b.d)
RDiv(a, b) == Norm(a.n * b.d, a.d * b.n)
RLeq(a, b) == a.n * b.d <= b.n * a.d
RMin(a, b) == IF RLeq(a, b) THEN a ELSE b
RMax(a, b) == IF RLeq(a, b) THEN b ELSE a
RHalf(a) == Norm(a.n, a.d * 2)

Rect(x, y, w, h) == [x |-> x, y |-> y, w |-> w, h |-> h]
IRect(x, y, w, h) == Rect(R(x), R(y), R(w), R(h))

-----------------------------------------------------------------------------
(* CanvasDrawer.CONSTANTS *)

FONT_SIZE == 90
PADDING == 60
TEXT_AREA_HEIGHT == 220
IMG_SIZE == 1000
POLAROID_WIDTH == 1000 + 60 * 2
POLAROID_HEIGHT == IMG_SIZE + PADDING + TEXT_AREA_HEIGHT
GRID_GAP == 100

(* PolaroidMaker config: the decoration catalog *)
DecorationIds ==
    {"ribbon-decoration", "heart-decoration", "sparkle-decoration",
     "doodle-arrow-decoration"}

Decorations ==
    [id \in DecorationIds |->
        CASE id = "ribbon-decoration" -> [w |-> 200, h |-> 100, x |-> 0, y |-> 0]
          [] id = "heart-decoration" -> [w |-> 150, h |-> 150, x |-> 870, y |-> 0]
          [] id = "sparkle-decoration" -> [w |-> 100, h |-> 100, x |-> 880, y |-> 30]
          [] id = "doodle-arrow-decoration" ->
                [w |-> 200, h |-> 200, x |-> 400, y |-> 400]]

(* PolaroidMaker config: filter id -> CSS filter expression *)
\* The earlier revision of the renderer: its catalog has sizes only, and
\* _drawSinglePolaroid places the ribbon at the top-left corner of the frame
\* and the heart at x = POLAROID_WIDTH - d.w, the top-right corner.
HardcodedIds == {"ribbon-decoration", "heart-decoration"}

HardcodedSizes ==
    [id \in HardcodedIds |->
        IF id = "ribbon-decoration" THEN [w |-> 200, h |-> 100]
        ELSE [w |-> 150, h |-> 150]]

HardcodedRect(id) ==
    LET d == HardcodedSizes[id]
    IN  IF id = "ribbon-decoration" THEN IRect(0, 0, d.w, d.h)
        ELSE IRect(POLAROID_WIDTH - d.w, 0, d.w, d.h)

FilterIds == {"none", "mono"}

Filters ==
    [f \in FilterIds |-> IF f = "none" THEN "none" ELSE "grayscale(1)"]

-----------------------------------------------------------------------------
(* Inputs of a call *)

\* Layout ids passed by callers: the four of the layout picker, the alias the
\* drawer also accepts, and an id it does not know.
Layouts ==
    {"single", "grid-2x2", "grid-strip", "collage", "grid-4x1", "mosaic"}

KnownLayouts == {"single", "grid-2x2", "grid-strip", "collage"}

Texts == {"", "hi"}

\* Image sources are numbered 1, 2, ... in list order; 0 stands for undefined.
UNDEF == 0
UNDEF_DECO == "undefined"

ImageList(n) == [i \in 1..n |-> i]

\* Decoded size of image source i (camera frames and uploads of several shapes).
ImageSizes ==
    << <<1000, 1000>>, <<1920, 1080>>, <<1080, 1920>>, <<640, 480>>, <<300, 700>> >>

ImgWidth(img) == ImageSizes[((img - 1) % Len(ImageSizes)) + 1][1]
ImgHeight(img) == ImageSizes[((img - 1) % Len(ImageSizes)) + 1][2]

\* state.decorations is a Set: its iteration order is insertion order.
DecorationChoices ==
    { <<>>,
      <<"ribbon-decoration">>,
      <<"heart-decoration", "sparkle-decoration">>,
      <<"sparkle-decoration", "ribbon-decoration">>,
      <<"ribbon-decoration", "heart-decoration", "sparkle-decoration",
        "doodle-arrow-decoration">> }

Font == "Caveat"

-----------------------------------------------------------------------------
(* The 2D context *)

DefaultCtx ==
    [tx |-> R(0), ty |-> R(0), sx |-> R(1), sy |-> R(1),
     shadowColor |-> "transparent", shadowBlur |-> 0, shadowOffsetY |-> 0,
     filter |-> "none", clip |-> <<>>]

\* The drawer state threaded through the synchronous part of a call.
Thrown(d) == d.err # "none"
Throw(d, e) == IF Thrown(d) THEN d ELSE [d EXCEPT !.err = e]

\* Device-space rectangle of a user-space rectangle under the transform of c.
DeviceRect(c, r) ==
    Rect(RAdd(c.tx, RMul(c.sx, r.x)), RAdd(c.ty, RMul(c.sy, r.y)),
         RMul(c.sx, r.w), RMul(c.sy, r.h))

Op(d, name, what, r) ==
    [op |-> name, cell |-> Len(d.frames), what |-> what, rect |-> r, st |-> d.ctx,
     depth |-> Len(d.stack)]

Emit(d, name, what, r) ==
    IF Thrown(d) THEN d ELSE [d EXCEPT !.ops = Append(@, Op(d, name, what, r))]

save(d) == IF Thrown(d) THEN d ELSE [d EXCEPT !.stack = Append(@, d.ctx)]

\* A restore that pops the stack and leaves the current state as it is.
restoreDepthOnly(d) ==
    IF Thrown(d) \/ Len(d.stack) = 0 THEN d
    ELSE [d EXCEPT !.stack = SubSeq(d.stack, 1, Len(d.stack) - 1)]

restore(d) ==
    IF Thrown(d) \/ Len(d.stack) = 0 THEN d
    ELSE [d EXCEPT !.ctx = d.stack[Len(d.stack)],
                   !.stack = SubSeq(d.stack, 1, Len(d.stack) - 1)]

translate(d, x, y) ==
    IF Thrown(d) THEN d
    ELSE [d EXCEPT !.ctx.tx = RAdd(@, RMul(d.ctx.sx, x)),
                   !.ctx.ty = RAdd(@, RMul(d.ctx.sy, y))]

scale(d, a, b) ==
    IF Thrown(d) THEN d
    ELSE [d EXCEPT !.ctx.sx = RMul(@, a), !.ctx.sy = RMul(@, b)]

\* beginPath(); rect(x, y, w, h); clip()
clip(d, r) ==
    IF Thrown(d) THEN d
    ELSE [d EXCEPT !.ctx.clip = Append(@, DeviceRect(d.ctx, r))]

setShadow(d, color, blur, offsetY) ==
    IF Thrown(d) THEN d
    ELSE [d EXCEPT !.ctx.shadowColor = color, !.ctx.shadowBlur = blur,
                   !.ctx.shadowOffsetY = offsetY]

setShadowColor(d, color) ==
    IF Thrown(d) THEN d ELSE [d EXCEPT !.ctx.shadowColor = color]

setFilter(d, f) == IF Thrown(d) THEN d ELSE [d EXCEPT !.ctx.filter = f]

\* Assigning canvas.width or canvas.height clears the bitmap and resets the
\* context to its default state, drawing-state stack included.
setCanvasWidth(d, w) ==
    IF Thrown(d) THEN d
    ELSE LET e == [d EXCEPT !.canvas.width = w, !.ctx = DefaultCtx, !.stack = <<>>]
         IN  Emit(e, "resize", <<"width">>, IRect(0, 0, w, e.canvas.height))

setCanvasHeight(d, h) ==
    IF Thrown(d) THEN d
    ELSE LET e == [d EXCEPT !.canvas.height = h, !.ctx = DefaultCtx, !.stack = <<>>]
         IN  Emit(e, "resize", <<"height">>, IRect(0, 0, e.canvas.width, h))

-----------------------------------------------------------------------------
(* CanvasDrawer._loadAssets *)

\* An image promise: decode().then(() => img).catch(e => console.error(...)).
\* A failed decode is caught and the promise fulfils with undefined.
ImagePromise(src, ok) == IF ok THEN src ELSE UNDEF

DecoPromise(id, ok) == IF ok THEN id ELSE UNDEF_DECO

\* promises.filter(p => p): every element is a promise object, hence truthy.
FilterPromises(ps) == SelectSeq(ps, LAMBDA p : TRUE)

LoadedImages(images, imgOk) ==
    FilterPromises([i \in 1..Len(images) |-> ImagePromise(images[i], imgOk[i])])

LoadedDecos(decos, decoOk) ==
    FilterPromises([j \in 1..Len(decos) |-> DecoPromise(decos[j], decoOk[j])])

\* new Map(loadedDecos.map(d => [d.id, d.img])) reads d.id of every element:
\* an undefined element makes it throw a TypeError.
DecoMapThrows(loadedDecos) ==
    \E j \in 1..Len(loadedDecos) : loadedDecos[j] = UNDEF_DECO

\* The Map, as the sequence of its keys in insertion order.
DecoMap(loadedDecos) == loadedDecos

EmptyMap == <<>>

-----------------------------------------------------------------------------
(* CanvasDrawer._drawImageWithAspectRatio *)

\* Destination rectangle of the cover fit of a w x h image into the target.
CoverRect(w, h, dx, dy, dWidth, dHeight) ==
    LET hRatio == RDiv(dWidth, R(w))
        vRatio == RDiv(dHeight, R(h))
        ratio == RMax(hRatio, vRatio)
        centerShiftX == RHalf(RSub(dWidth, RMul(R(w), ratio)))
        centerShiftY == RHalf(RSub(dHeight, RMul(R(h), ratio)))
    IN  Rect(RAdd(dx, centerShiftX), RAdd(dy, centerShiftY),
             RMul(R(w), ratio), RMul(R(h), ratio))

\* img.width of undefined throws a TypeError before anything is drawn.
drawImageWithAspectRatio(d, img, dx, dy, dWidth, dHeight) ==
    IF img = UNDEF THEN Throw(d, "TypeError")
    ELSE Emit(d, "drawImage", <<img>>,
              CoverRect(ImgWidth(img), ImgHeight(img), dx, dy, dWidth, dHeight))

-----------------------------------------------------------------------------
(* CanvasDrawer._drawSinglePolaroid *)

RECURSIVE DrawDecorations(_, _, _)
DrawDecorations(d, decoMap, k) ==
    IF k > Len(decoMap) THEN d
    ELSE LET c == Decorations[decoMap[k]]
         IN  DrawDecorations(
                 Emit(d, "drawDeco", <<decoMap[k]>>, IRect(c.x, c.y, c.w, c.h)),
                 decoMap, k + 1)

DrawText(d, text, font) ==
    IF text = "" THEN d
    ELSE Emit(d, "fillText", <<text, font>>,
              Rect(RHalf(R(POLAROID_WIDTH)),
                   RAdd(R(PADDING + IMG_SIZE), RHalf(R(TEXT_AREA_HEIGHT))),
                   R(0), R(FONT_SIZE)))

\* The frame renderer with the caption drawn before the decorations.
drawSinglePolaroidTextFirst(d, img, text, decoMap, filterValue, font) ==
    IF Thrown(d) THEN d
    ELSE
    LET d0 == [d EXCEPT !.frames =
                  Append(@, [img |-> img, text |-> text, decos |-> decoMap,
                             st |-> d.ctx, depth |-> Len(d.stack)])]
        a1 == setShadow(d0, "rgba(60, 60, 80, 0.15)", 40, 20)
        a2 == Emit(a1, "fillRect", <<>>, IRect(0, 0, POLAROID_WIDTH, POLAROID_HEIGHT))
        a3 == setShadowColor(a2, "transparent")
        b1 == save(a3)
        b2 == clip(b1, IRect(PADDING, PADDING, IMG_SIZE, IMG_SIZE))
        b3 == setFilter(b2, filterValue)
        b4 == drawImageWithAspectRatio(b3, img, R(PADDING), R(PADDING),
                                       R(IMG_SIZE), R(IMG_SIZE))
        b5 == setFilter(b4, "none")
        b6 == restore(b5)
    IN  DrawDecorations(DrawText(b6, text, font), decoMap, 1)

drawSinglePolaroid(d, img, text, decoMap, filterValue, font) ==
    IF Thrown(d) THEN d
    ELSE
    LET d0 == [d EXCEPT !.frames =
                  Append(@, [img |-> img, text |-> text, decos |-> decoMap,
                             st |-> d.ctx, depth |-> Len(d.stack)])]
        \* A. background and shadow
        a1 == setShadow(d0, "rgba(60, 60, 80, 0.15)", 40, 20)
        a2 == Emit(a1, "fillRect", <<>>, IRect(0, 0, POLAROID_WIDTH, POLAROID_HEIGHT))
        a3 == setShadowColor(a2, "transparent")
        \* B. image with filter
        b1 == save(a3)
        b2 == clip(b1, IRect(PADDING, PADDING, IMG_SIZE, IMG_SIZE))
        b3 == setFilter(b2, filterValue)
        b4 == drawImageWithAspectRatio(b3, img, R(PADDING), R(PADDING),
                                       R(IMG_SIZE), R(IMG_SIZE))
        b5 == setFilter(b4, "none")
        b6 == restore(b5)
        \* C. decorations
        c1 == DrawDecorations(b6, decoMap, 1)
    IN  \* D. text
        DrawText(c1, text, font)

-----------------------------------------------------------------------------
(* CanvasDrawer.createDownloadableCanvas, from the await to the return *)

\* loadedImages[i] with a JavaScript index; undefined beyond the end.
At(loadedImages, i) ==
    IF i + 1 \in 1..Len(loadedImages) THEN loadedImages[i + 1] ELSE UNDEF

\* A slip in the column count: the strip laid out on two columns.
GridColsStrip(layout) ==
    IF layout = "grid-2x2" \/ layout = "grid-strip" THEN 2 ELSE 1

GridCols(layout) == IF layout = "grid-2x2" THEN 2 ELSE 1

\* A slip in the row count: the grid-4x1 alias forgotten.
GridRowsNoAlias(layout) ==
    IF layout = "grid-2x2" THEN 2
    ELSE IF layout = "grid-strip" THEN 4
    ELSE 1

GridRows(layout) ==
    IF layout = "grid-2x2" THEN 2
    ELSE IF layout = "grid-strip" \/ layout = "grid-4x1" THEN 4
    ELSE 1

w_small == RHalf(R(POLAROID_WIDTH - GRID_GAP))
h_small == R(POLAROID_HEIGHT)

\* A slip in the caption choice: every small cell captioned.
CollageTextEvery(i, n, text) == text

CollageText(i, n, text) == IF i = n - 1 THEN text ELSE ""

RECURSIVE CollageSmall(_, _, _, _, _, _)
CollageSmall(d, i, loadedImages, text, filterValue, font) ==
    IF i >= 3 THEN d
    ELSE IF At(loadedImages, i) = UNDEF
    THEN CollageSmall(d, i + 1, loadedImages, text, filterValue, font)
    ELSE
    LET x == RMul(R(i - 1), RAdd(w_small, R(GRID_GAP)))
        y == R(POLAROID_HEIGHT + GRID_GAP)
        s1 == save(d)
        s2 == translate(s1, x, y)
        s3 == scale(s2, RDiv(w_small, R(POLAROID_WIDTH)),
                    RDiv(h_small, R(POLAROID_HEIGHT)))
        s4 == drawSinglePolaroid(s3, At(loadedImages, i),
                                 CollageText(i, Len(loadedImages), text),
                                 EmptyMap, filterValue, font)
    IN  CollageSmall(restore(s4), i + 1, loadedImages, text, filterValue, font)

DrawCollage(d, loadedImages, text, decoMap, filterValue, font) ==
    LET d1 == setCanvasWidth(d, POLAROID_WIDTH)
        d2 == setCanvasHeight(d1, POLAROID_HEIGHT + POLAROID_HEIGHT + GRID_GAP)
        d3 == IF At(loadedImages, 0) = UNDEF THEN d2
              ELSE restore(drawSinglePolaroid(save(d2), At(loadedImages, 0), "",
                                              decoMap, filterValue, font))
    IN  CollageSmall(d3, 1, loadedImages, text, filterValue, font)

GridText(i, n, text) == IF i = n - 1 THEN text ELSE ""

GridDecos(layout, i, decoMap) ==
    IF layout = "single" \/ i = 0 THEN decoMap ELSE EmptyMap

RECURSIVE GridCells(_, _, _, _, _, _, _, _)
GridCells(d, i, layout, loadedImages, text, decoMap, filterValue, font) ==
    IF i >= Len(loadedImages) THEN d
    ELSE
    LET cols == GridCols(layout)
        row == i \div cols
        col == i % cols
        x == col * (POLAROID_WIDTH + GRID_GAP)
        y == row * (POLAROID_HEIGHT + GRID_GAP)
        s1 == save(d)
        s2 == translate(s1, R(x), R(y))
        s3 == drawSinglePolaroid(s2, At(loadedImages, i),
                                 GridText(i, Len(loadedImages), text),
                                 GridDecos(layout, i, decoMap), filterValue, font)
    IN  GridCells(restore(s3), i + 1, layout, loadedImages, text, decoMap,
                  filterValue, font)

DrawGridKeepState(d, layout, loadedImages, text, decoMap, filterValue, font) ==
    LET cols == GridCols(layout)
        rows == GridRows(layout)
        w == cols * POLAROID_WIDTH + (cols - 1) * GRID_GAP
        h == rows * POLAROID_HEIGHT + (rows - 1) * GRID_GAP
        d1 == Emit([d EXCEPT !.canvas.width = w], "resize", <<"width">>,
                   IRect(0, 0, w, d.canvas.height))
        d2 == Emit([d1 EXCEPT !.canvas.height = h], "resize", <<"height">>,
                   IRect(0, 0, w, h))
    IN  GridCells(d2, 0, layout, loadedImages, text, decoMap, filterValue, font)

DrawGrid(d, layout, loadedImages, text, decoMap, filterValue, font) ==
    LET cols == GridCols(layout)
        rows == GridRows(layout)
        d1 == setCanvasWidth(d, cols * POLAROID_WIDTH + (cols - 1) * GRID_GAP)
        d2 == setCanvasHeight(d1, rows * POLAROID_HEIGHT + (rows - 1) * GRID_GAP)
    IN  GridCells(d2, 0, layout, loadedImages, text, decoMap, filterValue, font)

\* if (loadedImages.length === 0) throw new Error("No images to draw.")
NoImages(loadedImages) == Len(loadedImages) = 0

\* Everything after `await this._loadAssets(...)`, run to completion.
Compose(d, opts, imgOk, decoOk) ==
    LET loadedImages == LoadedImages(opts.images, imgOk)
        loadedDecos == LoadedDecos(opts.decorations, decoOk)
    IN  IF DecoMapThrows(loadedDecos) THEN Throw(d, "TypeError")
        ELSE IF NoImages(loadedImages) THEN Throw(d, "NoImagesError")
        ELSE
        LET decoMap == DecoMap(loadedDecos)
            filterValue == Filters[opts.filter]
            d1 == Emit(d, "clearRect", <<>>,
                       IRect(0, 0, d.canvas.width, d.canvas.height))
        IN  IF opts.layout = "collage"
            THEN DrawCollage(d1, loadedImages, opts.text, decoMap, filterValue,
                             opts.font)
            ELSE DrawGrid(d1, opts.layout, loadedImages, opts.text, decoMap,
                          filterValue, opts.font)

-----------------------------------------------------------------------------
(* The state machine *)

\* PolaroidMaker._initState, then _updateUI: with no image the download
\* button starts disabled. The polaroid container starts empty.
InitMaker ==
    /\ ui = [layout |-> "single", capturedImages |-> <<>>, text |-> "",
             decorations |-> <<>>, isStreaming |-> FALSE, isTimerActive |-> FALSE,
             downloadDisabled |-> TRUE]
    /\ downloads = EmptyBag
    /\ preview = <<>>

\* The camera and timer part of _initState, then _updateUI: nothing streams,
\* so the capture, timer and switch buttons start disabled. No stream is
\* held or live, no getUserMedia or enumerateDevices call is pending, no
\* timer sequence runs.
NoStream == [facingMode |-> "none", live |-> FALSE]

InitBooth ==
    booth = [facingMode |-> "user", stream |-> NoStream, orphans |-> 0,
             pending |-> EmptyBag, enumerating |-> 0,
             videoDeviceCount |-> 0,
             captureDisabled |-> TRUE, startTimerDisabled |-> TRUE,
             switchDisabled |-> TRUE,
             phase |-> "off", photosToTake |-> 0, photosTaken |-> 0,
             roundsAdded |-> 0]

NoOptions ==
    [layout |-> "single", images |-> <<>>, text |-> "", filter |-> "none",
     font |-> Font, decorations |-> <<>>]

NoOutcome == [imgOk |-> <<>>, decoOk |-> <<>>]

\* A fresh in-memory canvas is 300 x 150, its context in the default state.
FreshCanvas == [width |-> 300, height |-> 150]

Snapshot(cv, c, st) == [canvas |-> cv, ctx |-> c, stack |-> st]

\* new CanvasDrawer(config)
InitDrawer ==
    /\ pc = "idle"
    /\ options = NoOptions
    /\ loaded = NoOutcome
    /\ canvas = FreshCanvas
    /\ ctx = DefaultCtx
    /\ stack = <<>>
    /\ ops = <<>>
    /\ frames = <<>>
    /\ result = "none"
    /\ before = Snapshot(FreshCanvas, DefaultCtx, <<>>)

NoDecodes == <<>>
NoSize == [w |-> 0, h |-> 0]
NoTarget == IRect(0, 0, 0, 0)
NoRect == [target |-> NoTarget, rect |-> IRect(0, 0, 0, 0)]

InitCover == source = NoSize /\ fit = NoRect

Init ==
    /\ InitDrawer
    /\ decodes = NoDecodes
    /\ InitCover
    /\ InitMaker
    /\ InitBooth

\* createDownloadableCanvas(options) up to its await: the decodes are issued.
createDownloadableCanvas ==
    /\ pc = "idle"
    /\ \E layout \in Layouts, n \in 0..MaxImages, text \in Texts,
          filter \in FilterIds, decorations \in DecorationChoices :
          options' = [layout |-> layout, images |-> ImageList(n), text |-> text,
                      filter |-> filter, font |-> Font,
                      decorations |-> decorations]
    /\ pc' = "loading"
    /\ before' = Snapshot(canvas, ctx, stack)
    /\ UNCHANGED <<loaded, canvas, ctx, stack, ops, frames, result>>
    /\ UNCHANGED <<decodes, coverVars, makerVars, booth>>

\* Every decode has settled (each loaded or failed); the call resumes and runs
\* to its return or throw without further suspension.
loadAssetsSettled ==
    /\ pc = "loading"
    /\ \E imgOk \in [1..Len(options.images) -> BOOLEAN],
          decoOk \in [1..Len(options.decorations) -> BOOLEAN] :
          LET d0 == [canvas |-> canvas, ctx |-> ctx, stack |-> stack, ops |-> ops,
                     frames |-> frames, err |-> "none"]
          IN  \E d \in {Compose(d0, options, imgOk, decoOk)} :
              /\ loaded' = [imgOk |-> imgOk, decoOk |-> decoOk]
              /\ canvas' = d.canvas
              /\ ctx' = d.ctx
              /\ stack' = d.stack
              /\ ops' = d.ops
              /\ frames' = d.frames
              /\ result' = IF Thrown(d) THEN d.err ELSE "canvas"
              /\ pc' = IF Thrown(d) THEN "threw" ELSE "returned"
    /\ UNCHANGED <<options, before>>
    /\ UNCHANGED <<decodes, coverVars, makerVars, booth>>

Next == createDownloadableCanvas \/ loadAssetsSettled

Spec == Init /\ [][Next]_vars

-----------------------------------------------------------------------------
(* _loadAssets decode by decode: images.map and decorations.map call         *)
(* img.decode() on every source, then the call awaits Promise.all of all of  *)
(* them; the browser settles each decode on its own.                         *)

LoadLayouts == {"grid-2x2", "collage"}

LoadDecorations == { <<>>, <<"ribbon-decoration", "heart-decoration">> }

\* imagePromises followed by decoPromises, none settled.
IssueAll(images, decorations) ==
    [k \in 1..(Len(images) + Len(decorations)) |-> "pending"]

\* Every decode promise has a catch, so none rejects: Promise.all of them
\* fulfils once each has settled, fulfilled or caught.
AnySettled(ds) == ds = <<>> \/ \E k \in 1..Len(ds) : ds[k] # "pending"
AllSettled(ds) == \A k \in 1..Len(ds) : ds[k] # "pending"

\* createDownloadableCanvas(options) up to `await Promise.all(...)`.
loadAssetsIssued ==
    /\ pc = "idle"
    /\ \E layout \in LoadLayouts, n \in 0..MaxLoadImages,
          decorations \in LoadDecorations :
          /\ options' = [layout |-> layout, images |-> ImageList(n),
                         text |-> "hi", filter |-> "mono", font |-> Font,
                         decorations |-> decorations]
          /\ decodes' = IssueAll(ImageList(n), decorations)
    /\ pc' = "loading"
    /\ before' = Snapshot(canvas, ctx, stack)
    /\ UNCHANGED <<loaded, canvas, ctx, stack, ops, frames, result>>
    /\ UNCHANGED <<coverVars, makerVars, booth>>

\* One decode settles: it fulfils, or rejects and is caught.
decodeSettles ==
    /\ \E k \in 1..Len(decodes), outcome \in {"ok", "failed"} :
          /\ decodes[k] = "pending"
          /\ decodes' = [decodes EXCEPT ![k] = outcome]
    /\ UNCHANGED <<drawerVars, coverVars, makerVars, booth>>

\* Promise.all fulfils; createDownloadableCanvas runs to its end.
loadAssetsResumes ==
    /\ pc = "loading"
    /\ AllSettled(decodes)
    /\ LET n == Len(options.images)
           imgOk == [i \in 1..n |-> decodes[i] = "ok"]
           decoOk == [j \in 1..Len(options.decorations) |-> decodes[n + j] = "ok"]
           d0 == [canvas |-> canvas, ctx |-> ctx, stack |-> stack, ops |-> ops,
                  frames |-> frames, err |-> "none"]
       IN  \E d \in {Compose(d0, options, imgOk, decoOk)} :
           /\ loaded' = [imgOk |-> imgOk, decoOk |-> decoOk]
           /\ canvas' = d.canvas
           /\ ctx' = d.ctx
           /\ stack' = d.stack
           /\ ops' = d.ops
           /\ frames' = d.frames
           /\ result' = IF Thrown(d) THEN d.err ELSE "canvas"
           /\ pc' = IF Thrown(d) THEN "threw" ELSE "returned"
    /\ UNCHANGED <<options, before, decodes>>
    /\ UNCHANGED <<coverVars, makerVars, booth>>

NextLoad == loadAssetsIssued \/ decodeSettles \/ loadAssetsResumes

SpecLoad == Init /\ [][NextLoad]_vars

-----------------------------------------------------------------------------
(* _drawImageWithAspectRatio on its own: any source size into a target.      *)

\* The target the frame renderer passes (PADDING, PADDING, IMG_SIZE, IMG_SIZE)
\* and a small square at the origin.
CoverTargets == { IRect(PADDING, PADDING, IMG_SIZE, IMG_SIZE), IRect(0, 0, 6, 6) }

InitSources ==
    /\ InitDrawer
    /\ decodes = NoDecodes
    /\ source \in [w : 1..MaxSide, h : 1..MaxSide]
    /\ fit = NoRect
    /\ InitMaker
    /\ InitBooth

drawImageWithAspectRatioAlone ==
    /\ fit = NoRect
    /\ \E t \in CoverTargets :
          fit' = [target |-> t,
                  rect |-> CoverRect(source.w, source.h, t.x, t.y, t.w, t.h)]
    /\ UNCHANGED <<drawerVars, decodes, source, makerVars, booth>>

NextCover == drawImageWithAspectRatioAlone

SpecCover == InitSources /\ [][NextCover]_vars

-----------------------------------------------------------------------------
(* One CanvasDrawer used for call after call (this.canvas and this.ctx are   *)
(* created once, in the constructor, and every call draws on them).          *)

ReuseLayouts == {"single", "grid-2x2", "grid-strip", "collage"}

ReuseDecorations == { <<>>, <<"heart-decoration", "sparkle-decoration">> }

\* A further createDownloadableCanvas(options) on the same drawer.
createDownloadableCanvasAgain ==
    /\ pc = "idle"
    /\ \E layout \in ReuseLayouts, n \in 0..MaxReuseImages, text \in Texts,
          decorations \in ReuseDecorations :
          options' = [layout |-> layout, images |-> ImageList(n), text |-> text,
                      filter |-> "mono", font |-> Font,
                      decorations |-> decorations]
    /\ pc' = "loading"
    /\ before' = Snapshot(canvas, ctx, stack)
    /\ UNCHANGED <<loaded, canvas, ctx, stack, ops, frames, result>>
    /\ UNCHANGED <<decodes, coverVars, makerVars, booth>>

\* The caller has its canvas or its error; the drawer keeps this.canvas and
\* this.ctx as the call left them.
callerResumes ==
    /\ pc \in {"returned", "threw"}
    /\ pc' = "idle"
    /\ options' = NoOptions
    /\ loaded' = NoOutcome
    /\ ops' = <<>>
    /\ frames' = <<>>
    /\ result' = "none"
    /\ UNCHANGED <<canvas, ctx, stack, before>>
    /\ UNCHANGED <<decodes, coverVars, makerVars, booth>>

NextReuse == createDownloadableCanvasAgain \/ loadAssetsSettled \/ callerResumes

SpecReuse == Init /\ [][NextReuse]_vars

-----------------------------------------------------------------------------
(* PolaroidMaker._getMaxImagesForLayout: the capacity of a layout *)

getMaxImagesForLayout(layout) ==
    IF layout = "single" THEN 1
    ELSE IF layout = "grid-2x2" THEN 4
    ELSE IF layout = "grid-strip" THEN 4
    ELSE IF layout = "collage" THEN 3
    ELSE 1

-----------------------------------------------------------------------------
(* PolaroidMaker: uploads, layout selection and downloads, all on the one    *)
(* CanvasDrawer created by the constructor. The caption stays as the page    *)
(* loaded it, no decoration is ticked and the camera is off. The awaiting    *)
(* downloadPolaroid calls form a bag of their options: which of them settles *)
(* next does not depend on the order they started in. The canvas operation   *)
(* log (pc, options, loaded, ops, frames, result, before) holds the          *)
(* composition made by the latest step and is empty after any other.         *)

\* The photo an upload adds (a 1920 x 1080 picture).
UploadedImages == {2}

\* The 1 x 1 transparent gif renderPolaroid shows in a slot without an image.
PLACEHOLDER == -1

\* capturedImages.slice(-k)
SliceLast(s, k) == IF Len(s) <= k THEN s ELSE SubSeq(s, Len(s) - k + 1, Len(s))

\* imagesToRender[i] || placeholder
SlotImage(imagesToRender, i) ==
    IF At(imagesToRender, i) = UNDEF THEN PLACEHOLDER ELSE At(imagesToRender, i)

\* The preview without the empty slots.
PreviewCellsNoPadding(layout, capturedImages, text, decorations) ==
    LET imagesToRender == SliceLast(capturedImages, getMaxImagesForLayout(layout))
    IN  IF Len(capturedImages) = 0 THEN <<>>
        ELSE [k \in 1..Len(imagesToRender) |->
                 [img |-> imagesToRender[k],
                  text |-> IF k = Len(imagesToRender) THEN text ELSE "",
                  decos |-> IF k = 1 THEN decorations ELSE <<>>]]

\* The polaroid frames renderPolaroid puts into polaroidContainer.
PreviewCells(layout, capturedImages, text, decorations) ==
    LET imagesToRender == SliceLast(capturedImages, getMaxImagesForLayout(layout))
        totalSlots == getMaxImagesForLayout(layout)
    IN  IF Len(capturedImages) = 0 THEN <<>>
        ELSE IF layout = "single"
        THEN << [img |-> At(imagesToRender, 0), text |-> text,
                 decos |-> decorations] >>
        ELSE [k \in 1..totalSlots |->
                 [img |-> SlotImage(imagesToRender, k - 1),
                  text |-> IF k - 1 = Len(imagesToRender) - 1 THEN text ELSE "",
                  decos |-> IF k - 1 = 0 THEN decorations ELSE <<>>]]

\* _updateUI, the download button
UpdateUI(u) ==
    [u EXCEPT !.downloadDisabled = ~(Len(u.capturedImages) > 0) \/ u.isTimerActive]

\* _updateUI(), the buttons of the camera and the timer.
UpdateButtons(b, u) ==
    [b EXCEPT !.captureDisabled = ~u.isStreaming \/ u.isTimerActive,
              !.startTimerDisabled = ~u.isStreaming \/ u.isTimerActive,
              !.switchDisabled = ~u.isStreaming \/ u.isTimerActive
                                 \/ b.videoDeviceCount <= 1]

\* renderPolaroid(): rebuilds the preview and ends with _updateUI().
renderPolaroid(u) ==
    /\ preview' = PreviewCells(u.layout, u.capturedImages, u.text, u.decorations)
    /\ ui' = UpdateUI(u)
    /\ booth' = UpdateButtons(booth, u)

ClearLog ==
    /\ pc' = "idle"
    /\ options' = NoOptions
    /\ loaded' = NoOutcome
    /\ ops' = <<>>
    /\ frames' = <<>>
    /\ result' = "none"
    /\ before' = Snapshot(FreshCanvas, DefaultCtx, <<>>)

\* addCapturedImage(imageData)
AddCaptured(capturedImages, maxImages, imageData) ==
    Append(IF Len(capturedImages) >= maxImages THEN Tail(capturedImages)
           ELSE capturedImages, imageData)

\* handleFileUpload: reader.onload = e => addCapturedImage(e.target.result)
fileLoaded ==
    /\ Len(ui.capturedImages) < MaxUploads \/ ui.layout = "single"
    /\ \E imageData \in UploadedImages :
          renderPolaroid([ui EXCEPT !.capturedImages =
              AddCaptured(@, getMaxImagesForLayout(ui.layout), imageData)])
    /\ ClearLog
    /\ UNCHANGED <<canvas, ctx, stack, downloads, decodes, coverVars>>

\* click on a layout option
layoutSelected ==
    /\ \E layout \in KnownLayouts : renderPolaroid([ui EXCEPT !.layout = layout])
    /\ ClearLog
    /\ UNCHANGED <<canvas, ctx, stack, downloads, decodes, coverVars>>

\* click on the download button (a disabled button gets no click):
\* downloadPolaroid up to its await.
downloadPolaroid ==
    /\ ~ui.downloadDisabled
    /\ BagCardinality(downloads) < MaxDownloads
    /\ ui' = [ui EXCEPT !.downloadDisabled = TRUE]
    /\ downloads' = downloads (+) SetToBag({
          [layout |-> ui.layout,
           images |-> SliceLast(ui.capturedImages, getMaxImagesForLayout(ui.layout)),
           text |-> ui.text, filter |-> "none", font |-> Font,
           decorations |-> ui.decorations]})
    /\ ClearLog
    /\ UNCHANGED <<canvas, ctx, stack, preview, decodes, coverVars, booth>>

\* The decodes of one awaiting call have settled (the photos decode, or the
\* uploaded files are no images and none does): createDownloadableCanvas
\* draws on the shared canvas and returns or throws, downloadPolaroid encodes
\* the canvas or alerts, and its finally block enables the button. All of it
\* runs in the microtasks of one task.
downloadSettles ==
    /\ \E opts \in BagToSet(downloads), ok \in BOOLEAN :
          LET imgOk == [i \in 1..Len(opts.images) |-> ok]
              decoOk == [j \in 1..Len(opts.decorations) |-> TRUE]
              d0 == [canvas |-> canvas, ctx |-> ctx, stack |-> stack, ops |-> <<>>,
                     frames |-> <<>>, err |-> "none"]
          IN  \E d \in {Compose(d0, opts, imgOk, decoOk)} :
              /\ options' = opts
              /\ loaded' = [imgOk |-> imgOk, decoOk |-> decoOk]
              /\ before' = Snapshot(canvas, ctx, stack)
              /\ canvas' = d.canvas
              /\ ctx' = d.ctx
              /\ stack' = d.stack
              /\ ops' = d.ops
              /\ frames' = d.frames
              /\ result' = IF Thrown(d) THEN d.err ELSE "canvas"
              /\ pc' = IF Thrown(d) THEN "threw" ELSE "returned"
              /\ downloads' = downloads (-) SetToBag({opts})
    /\ ui' = [ui EXCEPT !.downloadDisabled = FALSE]
    /\ UNCHANGED <<preview, decodes, coverVars, booth>>

NextUI == fileLoaded \/ layoutSelected \/ downloadPolaroid \/ downloadSettles

SpecUI == Init /\ [][NextUI]_vars

------------------------------------------------------------------------------
(* PolaroidMaker: camera, capture and timer sequence.  The operators below
   take and return the state s = [ui, booth, preview] the way the methods
   read and write this.state and the page. *)

CapturedImages == {1}
DeviceCounts == {1, 2}

BoothState == [ui |-> ui, booth |-> booth, preview |-> preview]

\* _updateUI()
updateUI(s) ==
    [s EXCEPT !.ui = UpdateUI(s.ui), !.booth = UpdateButtons(s.booth, s.ui)]

\* stream.getTracks().forEach(track => track.stop()), when a stream is held
StopTracks(stream) ==
    IF stream = NoStream THEN stream ELSE [stream EXCEPT !.live = FALSE]

\* stopCamera(): the tracks of the held stream are stopped, then it is dropped.
stopCamera(s) ==
    updateUI([s EXCEPT !.ui.isStreaming = FALSE, !.booth.stream = NoStream])

\* Calls of startCamera awaiting getUserMedia or enumerateDevices, and live
\* streams this.state.stream no longer refers to.
Outstanding == BagCardinality(booth.pending) + booth.enumerating + booth.orphans

\* startCamera() up to its first await: a streaming camera is stopped
\* instead; otherwise getUserMedia is called with the current facing mode.
startCamera(s) ==
    IF s.ui.isStreaming THEN stopCamera(s)
    ELSE [s EXCEPT !.booth.stream = StopTracks(@),
                   !.booth.pending = @ (+) SetToBag({s.booth.facingMode})]

switchCamera(s) ==
    startCamera([s EXCEPT !.booth.facingMode =
                     IF @ = "user" THEN "environment" ELSE "user"])

\* renderPolaroid() on the threaded state
render(s) ==
    updateUI([s EXCEPT !.preview = PreviewCells(s.ui.layout, s.ui.capturedImages,
                                                s.ui.text, s.ui.decorations)])

addCapturedImage(s, imageData) ==
    updateUI(render([s EXCEPT !.ui.capturedImages =
        AddCaptured(@, getMaxImagesForLayout(s.ui.layout), imageData)]))

capturePhoto(s, imageData) ==
    IF ~s.ui.isStreaming THEN s ELSE addCapturedImage(s, imageData)

stopTimer(s) ==
    updateUI([s EXCEPT !.ui.isTimerActive = FALSE])

\* startTimer() with photoCount.value = n >= 1, through the first call of
\* sequence(), which starts the countdown of the first round.
startTimer(s, n) ==
    IF ~s.ui.isStreaming \/ s.ui.isTimerActive THEN s
    ELSE [render([updateUI([s EXCEPT !.ui.isTimerActive = TRUE])
                     EXCEPT !.ui.capturedImages = <<>>])
             EXCEPT !.booth.photosToTake = n,
                    !.booth.photosTaken = 0,
                    !.booth.roundsAdded = 0,
                    !.booth.phase = "countdown"]

Becomes(s) ==
    /\ ui' = s.ui
    /\ booth' = s.booth
    /\ preview' = s.preview

\* click on the start / stop camera button
startCameraBtnClicked ==
    /\ ui.isStreaming \/ Outstanding < MaxRequests
    /\ Becomes(startCamera(BoothState))
    /\ ClearLog
    /\ UNCHANGED <<canvas, ctx, stack, downloads, decodes, coverVars>>

\* The getUserMedia promise of one startCamera call settles. Fulfilled: the
\* new stream is stored over the held one, which stays live if its tracks
\* were not stopped, isStreaming is set and enumerateDevices is awaited.
\* Rejected: the catch block, then _updateUI().
getUserMediaSettles ==
    /\ \E facingMode \in BagToSet(booth.pending), granted \in BOOLEAN :
          LET s == [BoothState EXCEPT
                       !.booth.pending = @ (-) SetToBag({facingMode})]
          IN  Becomes(IF granted
                      THEN [s EXCEPT
                               !.booth.orphans =
                                    IF s.booth.stream.live THEN @ + 1 ELSE @,
                               !.booth.stream =
                                    [facingMode |-> facingMode, live |-> TRUE],
                               !.ui.isStreaming = TRUE,
                               !.booth.enumerating = @ + 1]
                      ELSE updateUI(s))
    /\ ClearLog
    /\ UNCHANGED <<canvas, ctx, stack, downloads, decodes, coverVars>>

\* The enumerateDevices promise of one startCamera call is fulfilled: the
\* device count is stored, then _updateUI().
enumerateDevicesSettles ==
    /\ booth.enumerating > 0
    /\ \E count \in DeviceCounts :
          Becomes(updateUI([BoothState EXCEPT !.booth.enumerating = @ - 1,
                                              !.booth.videoDeviceCount = count]))
    /\ ClearLog
    /\ UNCHANGED <<canvas, ctx, stack, downloads, decodes, coverVars>>

\* click on the switch camera button
switchCameraBtnClicked ==
    /\ ~booth.switchDisabled
    /\ ui.isStreaming \/ Outstanding < MaxRequests
    /\ Becomes(switchCamera(BoothState))
    /\ ClearLog
    /\ UNCHANGED <<canvas, ctx, stack, downloads, decodes, coverVars>>

NextCamera ==
    \/ startCameraBtnClicked
    \/ getUserMediaSettles
    \/ enumerateDevicesSettles
    \/ switchCameraBtnClicked

SpecCamera == Init /\ [][NextCamera]_vars

\* click on the capture button
captureBtnClicked ==
    /\ ~booth.captureDisabled
    /\ \E imageData \in CapturedImages :
          Becomes(capturePhoto(BoothState, imageData))
    /\ ClearLog
    /\ UNCHANGED <<canvas, ctx, stack, downloads, decodes, coverVars>>

\* click on the start timer button while the photo count field holds n
startTimerBtnClicked ==
    /\ ~booth.startTimerDisabled
    /\ \E n \in 1..MaxRounds : Becomes(startTimer(BoothState, n))
    /\ ClearLog
    /\ UNCHANGED <<canvas, ctx, stack, downloads, decodes, coverVars>>

\* The countdown of a round has run out (showCountdown's last timeout):
\* capturePhoto(); photosTaken++; setTimeout(sequence, 1000).
countdownComplete ==
    /\ booth.phase = "countdown"
    /\ \E imageData \in CapturedImages :
          Becomes([capturePhoto(BoothState, imageData) EXCEPT
                      !.booth.photosTaken = @ + 1,
                      !.booth.roundsAdded = IF ui.isStreaming THEN @ + 1 ELSE @,
                      !.booth.phase = "pause"])
    /\ ClearLog
    /\ UNCHANGED <<canvas, ctx, stack, downloads, decodes, coverVars>>

\* sequence(), called by the timeout between two rounds: stopTimer() after
\* the last round, the next countdown otherwise.
sequence ==
    /\ booth.phase = "pause"
    /\ Becomes(IF booth.photosTaken >= booth.photosToTake
               THEN [stopTimer(BoothState) EXCEPT !.booth.phase = "off",
                                                  !.booth.photosToTake = 0,
                                                  !.booth.photosTaken = 0,
                                                  !.booth.roundsAdded = 0]
               ELSE [BoothState EXCEPT !.booth.phase = "countdown"])
    /\ ClearLog
    /\ UNCHANGED <<canvas, ctx, stack, downloads, decodes, coverVars>>

NextTimer ==
    \/ startCameraBtnClicked
    \/ getUserMediaSettles
    \/ enumerateDevicesSettles
    \/ captureBtnClicked
    \/ fileLoaded
    \/ layoutSelected
    \/ startTimerBtnClicked
    \/ countdownComplete
    \/ sequence

SpecTimer == Init /\ [][NextTimer]_vars

NextBooth ==
    \/ startCameraBtnClicked
    \/ getUserMediaSettles
    \/ enumerateDevicesSettles
    \/ captureBtnClicked
    \/ fileLoaded
    \/ startTimerBtnClicked
    \/ countdownComplete
    \/ sequence
    \/ downloadPolaroid
    \/ downloadSettles

SpecBooth == Init /\ [][NextBooth]_vars

------------------------------------------------------------------------------
(* PolaroidMaker: the caption and the decorations, on the page and in the
   download *)

PreviewDecorations == {"ribbon-decoration"}

\* input event of the caption field: renderPolaroid()
captionInput ==
    /\ \E text \in Texts : renderPolaroid([ui EXCEPT !.text = text])
    /\ ClearLog
    /\ UNCHANGED <<canvas, ctx, stack, downloads, decodes, coverVars>>

\* click on a decoration option: the id joins or leaves state.decorations
decorationSelected ==
    /\ \E decoId \in PreviewDecorations :
          renderPolaroid([ui EXCEPT !.decorations =
              IF \E j \in 1..Len(@) : @[j] = decoId
              THEN SelectSeq(@, LAMBDA id : id # decoId)
              ELSE Append(@, decoId)])
    /\ ClearLog
    /\ UNCHANGED <<canvas, ctx, stack, downloads, decodes, coverVars>>

NextPreview ==
    \/ fileLoaded
    \/ layoutSelected
    \/ captionInput
    \/ decorationSelected
    \/ downloadPolaroid
    \/ downloadSettles

SpecPreview == Init /\ [][NextPreview]_vars

-----------------------------------------------------------------------------
(* Vocabulary of the properties *)

Done == pc \in {"returned", "threw"}
NumImages == Len(options.images)
AllImagesLoaded == \A i \in 1..Len(loaded.imgOk) : loaded.imgOk[i]
NoImageLoaded == \A i \in 1..Len(loaded.imgOk) : ~loaded.imgOk[i]
AllDecosLoaded == \A j \in 1..Len(loaded.decoOk) : loaded.decoOk[j]
Resized == \E k \in 1..Len(ops) : ops[k].op = "resize"
IdentityTransform(c) ==
    c.tx = R(0) /\ c.ty = R(0) /\ c.sx = R(1) /\ c.sy = R(1)

\* The documented cell geometry (spec.md, section 3).
cellWidth == IMG_SIZE + 2 * PADDING
cellHeight == IMG_SIZE + PADDING + TEXT_AREA_HEIGHT
smallCellHeight == cellHeight
\* Two small cells and one gap span the large cell.
smallCellWidth == CHOOSE w \in 0..cellWidth : 2 * w + GRID_GAP = cellWidth

DocumentedSize(layout) ==
    CASE layout = "single" -> [width |-> cellWidth, height |-> cellHeight]
      [] layout = "grid-2x2" ->
            [width |-> 2 * cellWidth + GRID_GAP, height |-> 2 * cellHeight + GRID_GAP]
      [] layout = "grid-strip" ->
            [width |-> cellWidth, height |-> 4 * cellHeight + 3 * GRID_GAP]
      [] layout = "collage" ->
            [width |-> cellWidth,
             height |-> cellHeight + smallCellHeight + GRID_GAP]

\* A frame is complete when its background and its image were both drawn.
FrameComplete(k) ==
    /\ \E j \in 1..Len(ops) : ops[j].cell = k /\ ops[j].op = "fillRect"
    /\ \E j \in 1..Len(ops) : ops[j].cell = k /\ ops[j].op = "drawImage"

FullyDrawn == Len(frames) >= 1 /\ \A k \in 1..Len(frames) : FrameComplete(k)

-----------------------------------------------------------------------------
(* Properties *)

\* C1: a call with an empty images list fails, for every layout, with the
\* no-images error and performs no operation on the canvas.
C1_EmptyImagesNoImagesError ==
    (Done /\ NumImages = 0) => (result = "NoImagesError" /\ ops = <<>>)

\* C2: when the images list is non-empty and every main image fails to decode,
\* the call fails with the no-images error before any drawing.
C2_AllImagesFailNoImagesError ==
    (Done /\ NumImages >= 1 /\ NoImageLoaded)
        => (result = "NoImagesError" /\ ops = <<>>)

\* C3: with all main images loaded, one decoration failing to decode and
\* another succeeding, the call returns the canvas, the primary cell carrying
\* exactly the decorations that loaded, and no error reaches the caller.
C3_DecorationFailureNotFatal ==
    (/\ Done /\ NumImages >= 1 /\ AllImagesLoaded
     /\ \E j \in 1..Len(loaded.decoOk) : ~loaded.decoOk[j]
     /\ \E j \in 1..Len(loaded.decoOk) : loaded.decoOk[j])
        => /\ result = "canvas"
           /\ Len(frames) >= 1
           /\ frames[1].decos =
                 SelectSeq(options.decorations,
                           LAMBDA id : \E j \in 1..Len(loaded.decoOk) :
                                          options.decorations[j] = id
                                          /\ loaded.decoOk[j])

\* C4: a call that fails has performed no operation on the canvas, and a
\* canvas that is returned is fully drawn.
C4_NoPartialSurface ==
    /\ pc = "threw" => ops = <<>>
    /\ pc = "returned" => FullyDrawn

\* C5: for every layout and every non-empty list of loaded images, the caption
\* is passed to exactly one frame draw, that of the last image, and every
\* other frame draw gets the empty caption.
C5_CaptionOnLastImage ==
    (/\ pc = "returned" /\ options.layout \in KnownLayouts
     /\ NumImages >= 1 /\ AllImagesLoaded /\ options.text # "")
        => /\ Cardinality({k \in 1..Len(frames) : frames[k].text # ""}) = 1
           /\ \A k \in 1..Len(frames) :
                 frames[k].text =
                    IF frames[k].img = options.images[NumImages]
                    THEN options.text ELSE ""

\* C6: in every composition the loaded decorations are passed to at most one frame draw, the one
\* of the primary cell (first image, untransformed); every other frame draw
\* receives an empty decoration map.
C6_DecorationsOnPrimaryCellOnly ==
    pc = "returned" => \A k \in 1..Len(frames) :
               frames[k].decos # <<>>
                  => /\ k = 1
                     /\ IdentityTransform(frames[k].st)
                     /\ \A m \in 1..Len(frames) : m # k => frames[m].decos = <<>>

\* C7: for an image list longer than the layout's capacity, only the first
\* capacity images are placed, in input order, and the extras are ignored.
C7_ExtrasIgnored ==
    (/\ pc = "returned" /\ options.layout \in KnownLayouts /\ AllImagesLoaded
     /\ NumImages > getMaxImagesForLayout(options.layout))
        => [k \in 1..Len(frames) |-> frames[k].img]
              = SubSeq(options.images, 1, getMaxImagesForLayout(options.layout))

\* C8: for every layout and image count, the canvas size the call sets is the
\* documented size of the layout, and a returned canvas has been sized.
C8_CanvasSizeFormula ==
    (Done /\ options.layout \in KnownLayouts)
        => /\ Resized => canvas = DocumentedSize(options.layout)
           /\ result = "canvas" => Resized

C8_Witness ==
    /\ pc = "returned" /\ options.layout = "collage" /\ NumImages = 2
    /\ AllImagesLoaded /\ Resized
    /\ canvas = [width |-> 1120, height |-> 2660]

\* C9: collage with 3 images: the canvas is the large cell's width by large
\* height + small height + gap; images[0] is drawn unscaled at the origin;
\* images[1] and images[2] are drawn in the two bottom slots, scaled by the
\* small/standard ratio; only the cell of the last image gets the caption.
C9_CollageThreeImages ==
    (/\ pc = "returned" /\ options.layout = "collage" /\ NumImages = 3
     /\ AllImagesLoaded)
        => /\ canvas = [width |-> cellWidth,
                        height |-> cellHeight + smallCellHeight + GRID_GAP]
           /\ Len(frames) = 3
           /\ \A k \in 1..3 : frames[k].img = options.images[k] /\ FrameComplete(k)
           /\ IdentityTransform(frames[1].st)
           /\ \A k \in 2..3 :
                 /\ frames[k].st.tx = R((k - 2) * (smallCellWidth + GRID_GAP))
                 /\ frames[k].st.ty = R(cellHeight + GRID_GAP)
                 /\ frames[k].st.sx = RDiv(R(smallCellWidth), R(cellWidth))
                 /\ frames[k].st.sy = RDiv(R(smallCellHeight), R(cellHeight))
           /\ frames[1].text = "" /\ frames[2].text = ""
           /\ frames[3].text = options.text

C9_Witness ==
    /\ pc = "returned" /\ options.layout = "collage" /\ NumImages = 3
    /\ AllImagesLoaded /\ options.text = "hi"
    /\ Len(frames) = 3 /\ frames[3].text = "hi"
    /\ frames[3].st.sx = [n |-> 51, d |-> 112]

\* C10 (as claimed): a layout id outside single, grid-2x2, grid-strip and
\* collage makes the call fail with an invalid-layout error instead of
\* producing a surface (stated for calls whose assets all load).
C10_InvalidLayoutError ==
    (/\ Done /\ options.layout \notin KnownLayouts
     /\ NumImages >= 1 /\ AllImagesLoaded /\ AllDecosLoaded)
        => result = "InvalidLayoutError"

\* C10 (amended): a layout id outside those four raises no invalid-layout
\* error: grid-4x1 is laid out as grid-strip and any other id as one column
\* by one row, and the canvas is returned whenever at least one image is given
\* and every image and decoration decodes.
C10_UnknownLayoutFallsBack ==
    (Done /\ options.layout \notin KnownLayouts)
        => /\ result # "InvalidLayoutError"
           /\ Resized =>
                 canvas = IF options.layout = "grid-4x1"
                          THEN DocumentedSize("grid-strip")
                          ELSE DocumentedSize("single")
           /\ (NumImages >= 1 /\ AllImagesLoaded /\ AllDecosLoaded)
                 => /\ result = "canvas"
                    /\ Len(frames) = NumImages
                    /\ \A k \in 1..Len(frames) :
                          /\ frames[k].st.tx = R(0)
                          /\ frames[k].st.ty =
                                R((k - 1) * (cellHeight + GRID_GAP))

C10_Witness ==
    /\ pc = "returned" /\ options.layout = "mosaic" /\ NumImages = 2
    /\ canvas = [width |-> 1120, height |-> 1280]
    /\ Len(frames) = 2

\* An operation with its arguments and draw state; of an assignment to
\* canvas.width or canvas.height, the one dimension assigned.
Call(o) ==
    IF o.op # "resize" THEN o
    ELSE IF o.what = <<"width">> THEN [o EXCEPT !.rect.h = R(0)]
    ELSE [o EXCEPT !.rect.w = R(0)]

\* What a call produced: its outcome, the canvas size when the call set it,
\* the frame renderer invocations and every canvas operation after the
\* clearRect that precedes the resize (the resize discards the bitmap that
\* clearRect cleared).
Produced(res, cv, fr, os) ==
    LET drawn == SelectSeq(os, LAMBDA o : o.op # "clearRect")
    IN  [result |-> res,
         size |-> IF \E k \in 1..Len(os) : os[k].op = "resize" THEN cv
                  ELSE FreshCanvas,
         frames |-> fr,
         ops |-> [k \in 1..Len(drawn) |-> Call(drawn[k])]]

OnFreshDrawer ==
    Compose([canvas |-> FreshCanvas, ctx |-> DefaultCtx, stack |-> <<>>,
             ops |-> <<>>, frames |-> <<>>, err |-> "none"],
            options, loaded.imgOk, loaded.decoOk)

C13_CoverFit ==
    fit # NoRect =>
        LET t == fit.target
            r == fit.rect
            wide == RLeq(RMul(t.h, R(source.w)), RMul(t.w, R(source.h)))
        IN  /\ r.w = IF wide THEN t.w ELSE RDiv(RMul(R(source.w), t.h), R(source.h))
            /\ r.h = IF wide THEN RDiv(RMul(R(source.h), t.w), R(source.w)) ELSE t.h
            /\ RLeq(r.x, t.x) /\ RLeq(RAdd(t.x, t.w), RAdd(r.x, r.w))
            /\ RLeq(r.y, t.y) /\ RLeq(RAdd(t.y, t.h), RAdd(r.y, r.h))
            /\ RSub(t.x, r.x) = RSub(RAdd(r.x, r.w), RAdd(t.x, t.w))
            /\ RSub(t.y, r.y) = RSub(RAdd(r.y, r.h), RAdd(t.y, t.h))
            /\ RMul(r.w, R(source.h)) = RMul(r.h, R(source.w))
            /\ (r.w = t.w \/ r.h = t.h)

C13_Witness ==
    /\ fit # NoRect /\ source.w = 7 /\ source.h = 3
    /\ fit.target = IRect(PADDING, PADDING, IMG_SIZE, IMG_SIZE)
    /\ fit.rect.h = R(IMG_SIZE) /\ fit.rect.w # R(IMG_SIZE)
    /\ ~RLeq(fit.target.x, fit.rect.x)

Pending == \E k \in 1..Len(decodes) : decodes[k] = "pending"

\* C14: when the call reaches its await, a decode has been issued for every
\* main image and every active decoration; and nothing is drawn, and the call
\* does not finish, while any of those decodes is still pending, in whatever
\* order they settle.
C14_JoinBeforeDraw ==
    /\ pc # "idle" => Len(decodes) = Len(options.images) + Len(options.decorations)
    /\ (pc = "loading" /\ Pending) => ops = <<>> /\ frames = <<>> /\ result = "none"
    /\ (ops # <<>> \/ Done) => ~Pending

\* Two image and two decoration decodes, one of them caught, all settled, and
\* the canvas drawn.
C14_Witness ==
    /\ pc = "returned" /\ Len(decodes) = 4 /\ ~Pending
    /\ decodes[1] = "failed" /\ decodes[2] = "ok" /\ decodes[4] = "ok"
    /\ \E k \in 1..Len(ops) : ops[k].op = "drawImage"

\* Two rectangles share no point of positive area.
Disjoint(a, b) ==
    \/ RLeq(RAdd(a.x, a.w), b.x) \/ RLeq(RAdd(b.x, b.w), a.x)
    \/ RLeq(RAdd(a.y, a.h), b.y) \/ RLeq(RAdd(b.y, b.h), a.y)

DecoDraws(cell) == { k \in 1..Len(ops) : ops[k].op = "drawDeco" /\ ops[k].cell = cell }

\* C15: the decorations drawn on a frame occupy pairwise disjoint rectangles
\* (so that the composition depends on the active set only, not on the order
\* in which the decorations are drawn).
C15_DecorationsDisjoint ==
    \A cell \in 1..Len(frames) : \A i, j \in DecoDraws(cell) :
        i # j => Disjoint(ops[i].rect, ops[j].rect)

\* C16: a ribbon or heart placed from the catalog is drawn at the position and
\* size of the earlier revision's hardcoded placement.
C16_CatalogMatchesHardcoded ==
    \A k \in 1..Len(ops) :
        (ops[k].op = "drawDeco" /\ ops[k].what[1] \in HardcodedIds)
            => ops[k].rect = HardcodedRect(ops[k].what[1])

Step(o) == [op |-> o.op, what |-> o.what]

\* The steps of the frame renderer for invocation k, in the documented order.
ExpectedSteps(k) ==
    LET f == frames[k]
    IN  << [op |-> "fillRect", what |-> <<>>] >>
        \o << [op |-> "drawImage", what |-> <<f.img>>] >>
        \o [j \in 1..Len(f.decos) |-> [op |-> "drawDeco", what |-> <<f.decos[j]>>]]
        \o (IF f.text = "" THEN <<>>
            ELSE << [op |-> "fillText", what |-> <<f.text, options.font>>] >>)

CellSteps(k) == SelectSeq(ops, LAMBDA o : o.cell = k)

SameStep(a, b) == a.op = b.op /\ a.what = b.what

IsPrefixOf(s, t) ==
    Len(s) <= Len(t) /\ \A j \in 1..Len(s) : SameStep(Step(s[j]), t[j])

\* C18: the operations of each frame are, in this order, the background fill,
\* the main image, one draw per active decoration in the map's order, and the
\* caption exactly when it is non-empty (in full when the frame's image is
\* there, an initial part of it otherwise); the operations of one frame all
\* come before those of the next.
C18_FrameStepOrder ==
    /\ \A k \in 1..Len(frames) :
          /\ IsPrefixOf(CellSteps(k), ExpectedSteps(k))
          /\ Len(CellSteps(k)) >= 1
          /\ frames[k].img # UNDEF => Len(CellSteps(k)) = Len(ExpectedSteps(k))
    /\ \A i, j \in 1..Len(ops) : i < j => ops[i].cell <= ops[j].cell

C18_Witness ==
    /\ pc = "returned" /\ options.layout = "grid-2x2" /\ Len(frames) = 3
    /\ Len(frames[1].decos) = 4 /\ frames[3].text # ""
    /\ Len(CellSteps(1)) = 6 /\ Len(CellSteps(2)) = 2 /\ Len(CellSteps(3)) = 3

VisibleShadow(c) ==
    c.shadowColor # "transparent" /\ (c.shadowBlur # 0 \/ c.shadowOffsetY # 0)

\* C19: the drop shadow is in effect for the background fill and for nothing
\* else; the clip to the image area and the chosen filter are in effect for
\* the main image draw and for nothing else: every decoration draw and caption
\* draw happens with no visible shadow, no clip and filter 'none'.
C19_NoDrawStateLeak ==
    \A k \in 1..Len(ops) :
        LET o == ops[k]
        IN  /\ o.op = "fillRect" =>
                   VisibleShadow(o.st) /\ o.st.clip = <<>> /\ o.st.filter = "none"
            /\ o.op = "drawImage" =>
                   /\ ~VisibleShadow(o.st)
                   /\ o.st.clip = << DeviceRect(o.st, IRect(PADDING, PADDING,
                                                           IMG_SIZE, IMG_SIZE)) >>
                   /\ o.st.filter = Filters[options.filter]
            /\ o.op \in {"drawDeco", "fillText"} =>
                   ~VisibleShadow(o.st) /\ o.st.clip = <<>> /\ o.st.filter = "none"

C19_Witness ==
    /\ pc = "returned" /\ options.layout = "collage" /\ options.filter = "mono"
    /\ \E k \in 1..Len(ops) : ops[k].op = "drawDeco" /\ ops[k].cell = 1
    /\ \E k \in 1..Len(ops) : ops[k].op = "fillText" /\ ops[k].cell = 3
    /\ \E k \in 1..Len(ops) : ops[k].op = "fillRect" /\ ops[k].cell = 3

\* The transform of cell i (counted from 0) of a layout: its own translation,
\* and for the small cells of the collage its scale, applied to the identity.
CellTransform(layout, i) ==
    IF layout = "collage"
    THEN IF i = 0 THEN [tx |-> R(0), ty |-> R(0), sx |-> R(1), sy |-> R(1)]
         ELSE [tx |-> R((i - 1) * (smallCellWidth + GRID_GAP)),
               ty |-> R(cellHeight + GRID_GAP),
               sx |-> RDiv(R(smallCellWidth), R(cellWidth)),
               sy |-> RDiv(R(smallCellHeight), R(cellHeight))]
    ELSE LET cols == IF layout = "grid-2x2" THEN 2 ELSE 1
         IN  [tx |-> R((i % cols) * (cellWidth + GRID_GAP)),
              ty |-> R((i \div cols) * (cellHeight + GRID_GAP)),
              sx |-> R(1), sy |-> R(1)]

TransformOf(c) == [tx |-> c.tx, ty |-> c.ty, sx |-> c.sx, sy |-> c.sy]

\* The cell of invocation k: the collage passes over missing images, the grid
\* invokes the renderer for every element of loadedImages.
CellOf(k) == IF options.layout = "collage" THEN frames[k].img - 1 ELSE k - 1

InvokedInOwnTransform ==
    \A k \in 1..Len(frames) :
        /\ frames[k].depth = 1
        /\ TransformOf(frames[k].st) = CellTransform(options.layout, CellOf(k))

\* C20: the frame renderer is invoked for each cell between a save and its
\* restore, under exactly that cell's translation (and scale) applied to the
\* identity, and when the call is over nothing is left on the drawing-state
\* stack and the transform is the identity again.
C20_CellsBracketed ==
    /\ InvokedInOwnTransform
    /\ (Done /\ Resized) => (stack = <<>> /\ IdentityTransform(ctx))

\* C12: at most one createDownloadableCanvas call is in flight on the shared
\* canvas: none starts between the start of another and the moment that
\* other's caller has encoded the canvas.
C12_OneCallInFlight == BagCardinality(downloads) <= 1

Capacity(layout) == getMaxImagesForLayout(layout)

OnPage == SliceLast(ui.capturedImages, Capacity(ui.layout))

Placeholders(cells) == { k \in 1..Len(cells) : cells[k].img = PLACEHOLDER }

\* The images of the call that decoded.
Decoded ==
    SelectSeq(LoadedImages(options.images, loaded.imgOk), LAMBDA img : img # UNDEF)

\* C17: with fewer images than the layout's capacity, single and collage show
\* one frame per image and none for the remaining cells, and grid-2x2 and
\* grid-strip always show 4 frames, the remaining ones placeholders; on the
\* page and on the downloaded canvas alike.
C17_PerLayoutPadding ==
    /\ (preview # <<>> /\ ui.layout \in {"single", "collage"})
           => Len(preview) = Len(OnPage)
    /\ (preview # <<>> /\ ui.layout \in {"grid-2x2", "grid-strip"})
           => Len(preview) = 4
    /\ (pc = "returned" /\ options.layout \in {"single", "collage"})
           => Len(frames) = Len(Decoded)
    /\ (pc = "returned" /\ options.layout \in {"grid-2x2", "grid-strip"})
           => Len(frames) = 4

\* C17 as the code has it: the downloaded canvas has one frame per decoded
\* image and nothing in the remaining cells, in every layout; the preview on the page
\* has one frame in the single layout and, in every other layout, collage
\* included, as many frames as the layout's capacity, those after the images
\* showing the transparent placeholder.
C17_PaddingOnPageOnly ==
    /\ pc = "returned" =>
          /\ Len(frames) = Len(Decoded)
          /\ \A k \in 1..Len(frames) : frames[k].img = Decoded[k]
    /\ preview # <<>> =>
          /\ Len(preview) = IF ui.layout = "single" THEN 1 ELSE Capacity(ui.layout)
          /\ \A k \in 1..Len(preview) :
                IF k <= Len(OnPage) THEN preview[k].img = OnPage[k]
                ELSE preview[k].img = PLACEHOLDER

\* A collage with one photo: one frame downloaded, three on the page.
C17_Witness ==
    /\ pc = "returned" /\ options.layout = "collage" /\ Len(options.images) = 1
    /\ Len(frames) = 1
    /\ ui.layout = "collage" /\ Len(ui.capturedImages) = 1
    /\ Len(preview) = 3 /\ Placeholders(preview) = {2, 3}

\* C21: the download button is disabled whenever capturedImages is empty or
\* a timer sequence is active.
C21_DownloadDisabled ==
    (Len(ui.capturedImages) = 0 \/ ui.isTimerActive) => ui.downloadDisabled

FacingModeFlipped ==
    /\ booth.facingMode \in {"user", "environment"}
    /\ booth'.facingMode \in {"user", "environment"} \ {booth.facingMode}

\* C22: a switchCamera call while the camera streams flips facingMode and
\* restarts the stream: it leaves a camera request for the new facing mode
\* pending.
C22_SwitchRestartsStream ==
    [][(ui.isStreaming /\ FacingModeFlipped)
          => booth'.facingMode \in BagToSet(booth'.pending)]_vars

ImageAdded ==
    /\ ui'.capturedImages # ui.capturedImages
    /\ ui'.capturedImages # <<>>

\* C23: right after an image was added, capturedImages is the former list
\* with the new image appended, cut from the front to the capacity of the
\* current layout.
C23_CapacityAfterAdd ==
    [][ImageAdded =>
          /\ Len(ui'.capturedImages) <= Capacity(ui'.layout)
          /\ ui'.capturedImages =
                SliceLast(Append(ui.capturedImages,
                                 ui'.capturedImages[Len(ui'.capturedImages)]),
                          Capacity(ui'.layout))]_vars

\* C24: while a timer sequence runs, isTimerActive is true, no more than the
\* requested rounds have run, and every round that ran added one photo.
C24_EveryRoundAddsPhoto ==
    booth.phase # "off" =>
        /\ ui.isTimerActive
        /\ booth.photosTaken <= booth.photosToTake
        /\ booth.roundsAdded = booth.photosTaken

\* C25: no live stream exists besides the one state.stream holds, and
\* isStreaming is true exactly when state.stream holds a live stream.
C25_OneLiveStream ==
    /\ booth.orphans = 0
    /\ ui.isStreaming <=> (booth.stream # NoStream /\ booth.stream.live)

CaptionCells(cells) == { k \in 1..Len(cells) : cells[k].text # "" }
DecorationCells(cells) == { k \in 1..Len(cells) : cells[k].decos # <<>> }

\* A download of what is on the page has returned its canvas.
SamePolaroid ==
    /\ pc = "returned" /\ AllImagesLoaded
    /\ preview # <<>>
    /\ options.layout = ui.layout
    /\ options.images = OnPage
    /\ options.text = ui.text
    /\ options.decorations = ui.decorations

\* C26: the cells that show the caption and the decorations on the page are
\* the cells that carry them on the downloaded canvas.
C26_PreviewMatchesDownload ==
    SamePolaroid =>
        /\ CaptionCells(preview) = CaptionCells(frames)
        /\ DecorationCells(preview) = DecorationCells(frames)

====
